---- MODULE Spec2Model ----
(***************************************************************************)
(* Model of jenkins_uploader.go: the Futures pool (AddFuture,              *)
(* BlockUntilComplete, GetAllPackages), the four stage tasks               *)
(* (CheckIfValidPackage, IsUpdateNeeded, DownloadArtifact, UpdatePackage)  *)
(* and the driver main().                                                  *)
(*                                                                         *)
(* Goroutines are interleaved at the granularity of their externally       *)
(* visible steps.  An unbuffered channel send is a rendezvous: the task's  *)
(* `future <- p` completes together with the forwarder's `<-future`, and   *)
(* the forwarder's `futures.Channels <- v` completes together with the     *)
(* receive in main's drain loop.  `futures.AddFuture(p.X())` is one step   *)
(* of main: the synchronous part of X, the start of the task, the start    *)
(* of the forwarder and the increment of the counter.                      *)
(*                                                                         *)
(* Spec is the whole run.  QuerySpec is one call of clusterOkToUpdate on   *)
(* any revision, cluster and tool output.                                  *)
(***************************************************************************)
EXTENDS Integers, Sequences, FiniteSets, TLC

(* ---- bounds ---- *)
MaxPkgs == 2          \* manifests matched by the glob: 0..MaxPkgs
MaxShas == 2          \* sha-shaped tokens in one package_versions output

(* ---- program constants ---- *)
AllClusters == <<"atla", "smf1">>

acceptableMIMETypes ==
  <<"application/x-compressed", "application/x-gzip", "application/zip">>

(* content types the probe may report: the accepted ones and two others *)
ContentTypes ==
  {"application/x-compressed", "application/x-gzip", "application/zip",
   "text/html", ""}

(* sha tokens: every package declares revision DeclaredRev; the store may  *)
(* list that revision or another one                                       *)
DeclaredRev == "rev"
ShaTokens == {"rev", "old", "new"}

(* values of Package.Revision: it is not validated, so it may be a string   *)
(* that no sha token can equal                                              *)
Revisions == ShaTokens \cup {"master"}

PkgIds == 1..MaxPkgs
ClusterSet == {AllClusters[k] : k \in 1..Len(AllClusters)}

VARIABLES
  nMatches,         \* len(matches) of filepath.Glob
  pc,               \* position of the main goroutine
  i, j,             \* main's loop indexes (package, cluster)
  pkgs,             \* []*Package: the records, named 1, 2, ... in arrival order
  ItemsInChannels,  \* Futures.ItemsInChannels
  futs,             \* every future registered so far, with its task and forwarder
  Valid,            \* Package.Valid
  NeedUpdate,       \* Package.NeedUpdate (a Go map; absent key reads false)
  Updated,          \* Package.Updated    (a Go map; absent key reads false)
  File,             \* Package.File ("" = unset)
  drainEntry,       \* ItemsInChannels when the current drain loop was entered
  drainRecv,        \* receives performed by the current drain loop
  report,           \* final report lines
  validWrites,      \* number of assignments to Package.Valid so far
  disk,             \* downloads_tmp: whether it exists, and what each
                    \* project's directory under it holds
  qrev, qcluster,   \* one call of clusterOkToUpdate: p.Revision, cluster,
  qout, qres        \* the output of the query tool, the value returned

qvars == <<qrev, qcluster, qout, qres>>

vars == <<nMatches, pc, i, j, pkgs, ItemsInChannels, futs, Valid, NeedUpdate,
          Updated, File, drainEntry, drainRecv, report, validWrites, disk,
          qvars>>

pkgvars == <<Valid, validWrites, NeedUpdate, Updated, File>>
mainvars == <<qvars, nMatches, pc, i, j, pkgs, ItemsInChannels, drainEntry,
              drainRecv, report>>

(* ---- Go maps ---- *)
EmptyMap == [x \in {} |-> FALSE]

MapGet(m, key) == IF key \in DOMAIN m THEN m[key] ELSE FALSE

MapSet(m, key, v) == [x \in (DOMAIN m) \cup {key} |-> IF x = key THEN v ELSE m[x]]

(* ---- helpers ---- *)
stringInArray(s, list) == \E k \in 1..Len(list) : list[k] = s

SeqsUpTo(S, n) == UNION {[1..m -> S] : m \in 0..n}

(* outputs of `aurora package_versions`: exit error, or the sha tokens     *)
(* shaMatch.FindAllString extracts from stdout                             *)
QueryOutputs ==
  {[err |-> TRUE, shas |-> <<>>]} \cup
  {[err |-> FALSE, shas |-> s] : s \in SeqsUpTo(ShaTokens, MaxShas)}

(* a query that is satisfied by any token equal to the revision *)
clusterOkToUpdate_AnyMatch(revision, out) ==
  IF out.err THEN TRUE
  ELSE IF Len(out.shas) < 1 THEN TRUE
  ELSE ~\E n \in 1..Len(out.shas) : out.shas[n] = revision

(* Package.clusterOkToUpdate: TRUE = needs update *)
clusterOkToUpdate(revision, out) ==
  IF out.err THEN TRUE
  ELSE IF Len(out.shas) < 1 THEN TRUE
  ELSE LET latest == out.shas[Len(out.shas)]
       IN IF revision = latest THEN FALSE ELSE TRUE

(* ---- futures ---- *)
(* k, ok: IsUpdateNeeded's loop position and its local `ok`                *)
(* tpc: position of the task goroutine; "done" = returned after its        *)
(*      `future <- p`; "returned" = returned early, without sending        *)
(* fwd: the forwarder goroutine of AddFuture: "wait" = blocked in          *)
(*      `<-future`, "hold" = blocked in `futures.Channels <- v`,           *)
(*      "relayed" = value taken by the drain, blocked in `<-future` again  *)
NewFuture(stage, p, cluster, start) ==
  [stage |-> stage, pkg |-> p, cluster |-> cluster, tpc |-> start,
   k |-> 1, ok |-> FALSE, res |-> "", sent |-> 0, fwd |-> "wait"]

FutIds == 1..Len(futs)

(* main before GetAllPackages: an empty pool; a record decoded from a      *)
(* manifest carries Artifact and Revision, its other fields are zero; the  *)
(* working directory holds no downloads_tmp                                *)
Init ==
  /\ nMatches \in 0..MaxPkgs
  /\ pc = "decodeSpawn"
  /\ i = 1
  /\ j = 1
  /\ pkgs = <<>>
  /\ ItemsInChannels = 0
  /\ futs = <<>>
  /\ Valid = [p \in PkgIds |-> FALSE]
  /\ NeedUpdate = [p \in PkgIds |-> EmptyMap]
  /\ Updated = [p \in PkgIds |-> EmptyMap]
  /\ File = [p \in PkgIds |-> ""]
  /\ drainEntry = 0
  /\ drainRecv = 0
  /\ report = <<>>
  /\ validWrites = [p \in PkgIds |-> 0]
  /\ disk = [tmp |-> FALSE, proj |-> [p \in PkgIds |-> "none"]]
  /\ qrev = DeclaredRev
  /\ qcluster = AllClusters[1]
  /\ qout = [err |-> TRUE, shas |-> <<>>]
  /\ qres = [set |-> FALSE, need |-> FALSE]

(* AddFuture without its `futures.ItemsInChannels++` *)
AddFuture_NoCount(future) ==
  /\ futs' = Append(futs, future)
  /\ ItemsInChannels' = ItemsInChannels

(* Futures.AddFuture: start the forwarder, count the future *)
AddFuture(future) ==
  /\ futs' = Append(futs, future)
  /\ ItemsInChannels' = ItemsInChannels + 1

(* entering a drain loop (GetAllPackages 215, BlockUntilComplete 223) *)
EnterDrain(label) ==
  /\ pc' = label
  /\ drainEntry' = ItemsInChannels
  /\ drainRecv' = 0

(* a drain iteration that counts one receive twice *)
DrainOne_DoubleDecrement(f) ==
  /\ ItemsInChannels > 0
  /\ futs[f].fwd = "hold"
  /\ futs' = [futs EXCEPT ![f].fwd = "relayed"]
  /\ ItemsInChannels' = ItemsInChannels - 2
  /\ drainRecv' = drainRecv + 1

(* one iteration of the drain loop: receive from futures.Channels, then    *)
(* the post statement futures.ItemsInChannels--                            *)
DrainOne(f) ==
  /\ ItemsInChannels > 0
  /\ futs[f].fwd = "hold"
  /\ futs' = [futs EXCEPT ![f].fwd = "relayed"]
  /\ ItemsInChannels' = ItemsInChannels - 1
  /\ drainRecv' = drainRecv + 1

(* a drain loop that ends without waiting for the outstanding futures *)
DrainExit_Early == TRUE

(* the loop condition futures.ItemsInChannels > 0 is false: the loop ends *)
DrainExit == ItemsInChannels <= 0


(* the process has exited (log.Fatal, os.Exit, return from main, or a      *)
(* runtime fatal error): no goroutine takes another step                   *)
Terminal == {"fatalNoPackages", "fatalNoValid", "exit0", "done", "crashed"}

Running == pc \notin Terminal

NumClusters == Len(AllClusters)

(* an assessment loop that does not test p.Valid *)
ShouldAssess_Always(p) == TRUE

(* `if p.Valid` (main, assessment loop) *)
ShouldAssess(p) == Valid[p]

(* a test that is true for every cluster as soon as one cluster is stale *)
ShouldUpdate_AnyCluster(p, cluster) ==
  \E k \in 1..NumClusters : MapGet(NeedUpdate[p], AllClusters[k])

(* `if p.NeedUpdate[cluster]` (main, download and upload loops) *)
ShouldUpdate(p, cluster) == MapGet(NeedUpdate[p], cluster)

(* the loop indexes at the end of an iteration of the inner cluster loop *)
NextCluster == IF j < NumClusters THEN <<i, j + 1>> ELSE <<i + 1, 1>>

(* a download loop without its `break`: it goes on to the next cluster *)
BreakClusterLoop_Missing == NextCluster

(* the loop indexes after `break` in the download loop: next package *)
BreakClusterLoop == <<i + 1, 1>>

(* a gate that never takes the log.Fatal branch *)
NothingToAssess_Never == FALSE

(* `if futures.ItemsInChannels > 0 {...} else { log.Fatal(...) }` *)
NothingToAssess == ~(ItemsInChannels > 0)

(* a gate that never takes the os.Exit(0) branch *)
NothingToDownload_Never == FALSE

(* `if futures.ItemsInChannels > 0 {...} else { ...; os.Exit(0) }` *)
NothingToDownload == ~(ItemsInChannels > 0)

(* ------------------------------------------------------------------ *)
(* main goroutine                                                      *)
(* ------------------------------------------------------------------ *)

(* GetAllPackages: `for _, v := range matches { futures.AddFuture(decodeJsonFile(v)) }` *)
GetAllPackagesSpawn ==
  /\ pc = "decodeSpawn"
  /\ IF i <= nMatches
     THEN /\ AddFuture(NewFuture("decode", i, "", "decode"))
          /\ i' = i + 1
          /\ UNCHANGED <<pc, drainEntry, drainRecv>>
     ELSE /\ EnterDrain("decodeDrain")
          /\ i' = 1
          /\ UNCHANGED <<futs, ItemsInChannels>>
  /\ UNCHANGED <<qvars, disk, nMatches, j, pkgs, pkgvars, report>>

(* GetAllPackages: `pkgs = append(pkgs, <-futures.Channels)`.  Each decode   *)
(* task allocates its own record (`p := &Package{}`); a record is named by  *)
(* its position in pkgs, the order in which the records arrive.             *)
GetAllPackagesRecv ==
  /\ pc = "decodeDrain"
  /\ \E f \in FutIds : DrainOne(f)
  /\ pkgs' = Append(pkgs, Len(pkgs) + 1)
  /\ UNCHANGED <<qvars, disk, nMatches, pc, i, j, pkgvars, drainEntry, report>>

(* GetAllPackages returns; main: `if len(pkgs) < 1 { log.Fatal(...) }` *)
GetAllPackagesReturn ==
  /\ pc = "decodeDrain"
  /\ DrainExit
  /\ pc' = IF Len(pkgs) < 1 THEN "fatalNoPackages" ELSE "validSpawn"
  /\ UNCHANGED <<qvars, disk, nMatches, i, j, pkgs, ItemsInChannels, futs, pkgvars,
                 drainEntry, drainRecv, report>>

(* `for _, p := range pkgs { futures.AddFuture(p.CheckIfValidPackage()) }` *)
(* followed by futures.BlockUntilComplete("Checking validity of packages") *)
ValidSpawn ==
  /\ pc = "validSpawn"
  /\ IF i <= Len(pkgs)
     THEN /\ AddFuture(NewFuture("valid", pkgs[i], "", "reset"))
          /\ i' = i + 1
          /\ UNCHANGED <<pc, drainEntry, drainRecv>>
     ELSE /\ EnterDrain("validDrain")
          /\ i' = 1
          /\ UNCHANGED <<futs, ItemsInChannels>>
  /\ UNCHANGED <<qvars, disk, nMatches, j, pkgs, pkgvars, report>>

(* `if p.Valid { futures.AddFuture(p.IsUpdateNeeded()) }`; IsUpdateNeeded   *)
(* runs `p.NeedUpdate = make(map[string]bool)` before starting its task.    *)
(* After the loop: drain if ItemsInChannels > 0, else log.Fatal.            *)
AssessSpawn ==
  /\ pc = "assessSpawn"
  /\ IF i <= Len(pkgs)
     THEN /\ IF ShouldAssess(pkgs[i])
             THEN /\ NeedUpdate' = [NeedUpdate EXCEPT ![pkgs[i]] = EmptyMap]
                  /\ AddFuture(NewFuture("assess", pkgs[i], "", "query"))
             ELSE UNCHANGED <<NeedUpdate, futs, ItemsInChannels>>
          /\ i' = i + 1
          /\ UNCHANGED <<pc, drainEntry, drainRecv>>
     ELSE /\ IF NothingToAssess
             THEN /\ pc' = "fatalNoValid"
                  /\ UNCHANGED <<drainEntry, drainRecv>>
             ELSE EnterDrain("assessDrain")
          /\ i' = 1
          /\ UNCHANGED <<NeedUpdate, futs, ItemsInChannels>>
  /\ UNCHANGED <<qvars, disk, nMatches, j, pkgs, Valid, validWrites, Updated, File, report>>

(* download loops: `if p.NeedUpdate[cluster] { AddFuture(p.DownloadArtifact(..)); break }` *)
(* After the loops: drain if ItemsInChannels > 0, else os.Exit(0).          *)
DownloadSpawn ==
  /\ pc = "dlSpawn"
  /\ IF i <= Len(pkgs)
     THEN /\ IF ShouldUpdate(pkgs[i], AllClusters[j])
             THEN /\ AddFuture(NewFuture("download", pkgs[i], "", "mkdir"))
                  /\ i' = BreakClusterLoop[1] /\ j' = BreakClusterLoop[2]
             ELSE /\ UNCHANGED <<futs, ItemsInChannels>>
                  /\ i' = NextCluster[1] /\ j' = NextCluster[2]
          /\ UNCHANGED <<pc, drainEntry, drainRecv>>
     ELSE /\ IF NothingToDownload
             THEN /\ pc' = "exit0"
                  /\ UNCHANGED <<drainEntry, drainRecv>>
             ELSE EnterDrain("dlDrain")
          /\ i' = 1
          /\ j' = 1
          /\ UNCHANGED <<futs, ItemsInChannels>>
  /\ UNCHANGED <<qvars, disk, nMatches, pkgs, pkgvars, report>>

(* upload loops: `if p.NeedUpdate[cluster] { futures.AddFuture(p.UpdatePackage(cluster)) }` *)
(* UpdatePackage runs `p.Updated = make(map[string]bool)` before starting   *)
(* its task.  After the loops: BlockUntilComplete("Updating packages").     *)
UpdateSpawn ==
  /\ pc = "upSpawn"
  /\ IF i <= Len(pkgs)
     THEN /\ IF ShouldUpdate(pkgs[i], AllClusters[j])
             THEN /\ Updated' = [Updated EXCEPT ![pkgs[i]] = EmptyMap]
                  /\ AddFuture(NewFuture("upload", pkgs[i], AllClusters[j], "run"))
             ELSE UNCHANGED <<Updated, futs, ItemsInChannels>>
          /\ i' = NextCluster[1] /\ j' = NextCluster[2]
          /\ UNCHANGED <<pc, drainEntry, drainRecv>>
     ELSE /\ EnterDrain("upDrain")
          /\ i' = 1
          /\ j' = 1
          /\ UNCHANGED <<Updated, futs, ItemsInChannels>>
  /\ UNCHANGED <<qvars, disk, nMatches, pkgs, Valid, validWrites, NeedUpdate, File, report>>

BlockPcs == {"validDrain", "assessDrain", "dlDrain", "upDrain"}

AfterBlock(label) ==
  CASE label = "validDrain"  -> "assessSpawn"
    [] label = "assessDrain" -> "dlSpawn"
    [] label = "dlDrain"     -> "upSpawn"
    [] label = "upDrain"     -> "report"

(* Futures.BlockUntilComplete: one loop iteration *)
BlockUntilCompleteRecv ==
  /\ pc \in BlockPcs
  /\ \E f \in FutIds : DrainOne(f)
  /\ UNCHANGED <<qvars, disk, nMatches, pc, i, j, pkgs, pkgvars, drainEntry, report>>

(* Futures.BlockUntilComplete: the loop ends and the call returns *)
BlockUntilCompleteReturn ==
  /\ pc \in BlockPcs
  /\ DrainExit
  /\ pc' = AfterBlock(pc)
  /\ UNCHANGED <<qvars, disk, nMatches, i, j, pkgs, ItemsInChannels, futs, pkgvars,
                 drainEntry, drainRecv, report>>

(* the (package, cluster) pairs in the order of the report loops *)
AllPairs ==
  [n \in 1..(Len(pkgs) * NumClusters) |->
     [pkg |-> pkgs[((n - 1) \div NumClusters) + 1],
      cluster |-> AllClusters[((n - 1) % NumClusters) + 1]]]

(* a report that prints a line for every pair, stale or not *)
ReportLines_AllPairs ==
  [n \in 1..Len(AllPairs) |->
     [pkg |-> AllPairs[n].pkg, cluster |-> AllPairs[n].cluster,
      ok |-> MapGet(Updated[AllPairs[n].pkg], AllPairs[n].cluster)]]

(* final report: a line for every pair with p.NeedUpdate[cluster], saying   *)
(* success iff p.Updated[cluster]                                           *)
ReportLines ==
  LET Stale(x) == ShouldUpdate(x.pkg, x.cluster)
      sel == SelectSeq(AllPairs, Stale)
  IN [n \in 1..Len(sel) |->
        [pkg |-> sel[n].pkg, cluster |-> sel[n].cluster,
         ok |-> MapGet(Updated[sel[n].pkg], sel[n].cluster)]]

Report ==
  /\ pc = "report"
  /\ report' = ReportLines
  /\ pc' = "cleanup"
  /\ UNCHANGED <<qvars, disk, nMatches, i, j, pkgs, ItemsInChannels, futs, pkgvars,
                 drainEntry, drainRecv>>

(* os.Remove removes a file or an empty directory; on a directory that    *)
(* has entries it fails and changes nothing (main ignores the error)       *)
OsRemoveTmp ==
  IF disk.tmp /\ \A p \in PkgIds : disk.proj[p] = "none"
  THEN [disk EXCEPT !.tmp = FALSE]
  ELSE disk

(* `os.Remove(downloadTmpDir)`, then main returns *)
Cleanup ==
  /\ pc = "cleanup"
  /\ pc' = "done"
  /\ disk' = OsRemoveTmp
  /\ UNCHANGED <<qvars, nMatches, i, j, pkgs, ItemsInChannels, futs, pkgvars,
                 drainEntry, drainRecv, report>>

(* ------------------------------------------------------------------ *)
(* task goroutines                                                     *)
(* ------------------------------------------------------------------ *)

SetTask(f, tpc, res) == [futs EXCEPT ![f].tpc = tpc, ![f].res = res]

(* the task's last statement `future <- p`: the forwarder AddFuture started *)
(* for this future is blocked in `<-future`, so the send completes, the     *)
(* forwarder now holds the value, and the task returns                      *)
SendAndReturn(f, res) ==
  [futs EXCEPT ![f].tpc = "done", ![f].res = res, ![f].sent = @ + 1,
               ![f].fwd = "hold"]

At(f, stage, tpc) == futs[f].stage = stage /\ futs[f].tpc = tpc

(* decodeJsonFile: open and decode (errors are only logged), set Project *)
DecodeJson ==
  \E f \in FutIds :
  /\ Running
  /\ At(f, "decode", "decode")
  /\ futs' = SendAndReturn(f, "ok")
  /\ UNCHANGED <<disk, mainvars, pkgvars>>

(* CheckIfValidPackage: `p.Valid = false` *)
CheckIfValidReset ==
  \E f \in FutIds :
  /\ Running
  /\ At(f, "valid", "reset")
  /\ Valid' = [Valid EXCEPT ![futs[f].pkg] = FALSE]
  /\ validWrites' = [validWrites EXCEPT ![futs[f].pkg] = @ + 1]
  /\ futs' = SetTask(f, "probe", "")
  /\ UNCHANGED <<disk, mainvars, NeedUpdate, Updated, File>>

(* CheckIfValidPackage: http.Get and the content-type test *)
CheckIfValidProbe ==
  \E f \in FutIds :
  /\ Running
  /\ At(f, "valid", "probe")
  /\ \E err \in BOOLEAN, ct \in ContentTypes :
       IF ~err /\ stringInArray(ct, acceptableMIMETypes)
       THEN /\ Valid' = [Valid EXCEPT ![futs[f].pkg] = TRUE]
            /\ validWrites' = [validWrites EXCEPT ![futs[f].pkg] = @ + 1]
            /\ futs' = SendAndReturn(f, "valid")
       ELSE /\ UNCHANGED <<Valid, validWrites>>
            /\ futs' = SendAndReturn(f, "invalid")
  /\ UNCHANGED <<disk, mainvars, NeedUpdate, Updated, File>>

(* IsUpdateNeeded: `ok, status := p.clusterOkToUpdate(cluster)` *)
IsUpdateNeededQuery ==
  \E f \in FutIds :
  /\ Running
  /\ At(f, "assess", "query")
  /\ \E out \in QueryOutputs :
       futs' = [futs EXCEPT ![f].tpc = "write",
                            ![f].ok = clusterOkToUpdate(DeclaredRev, out)]
  /\ UNCHANGED <<disk, mainvars, pkgvars>>

(* an assessment that marks a cluster stale once an earlier one was stale *)
IsUpdateNeededStep_Sticky ==
  \E f \in FutIds :
  /\ Running
  /\ At(f, "assess", "write")
  /\ LET p == futs[f].pkg
         k == futs[f].k
         any == \E c \in DOMAIN NeedUpdate[p] : NeedUpdate[p][c]
     IN /\ NeedUpdate' = [NeedUpdate EXCEPT ![p] =
                 MapSet(@, AllClusters[k], futs[f].ok \/ any)]
        /\ futs' = IF k < NumClusters
                   THEN [futs EXCEPT ![f].k = k + 1, ![f].tpc = "query"]
                   ELSE SendAndReturn(f, "ok")
  /\ UNCHANGED <<disk, mainvars, Valid, validWrites, Updated, File>>

(* IsUpdateNeeded: `p.NeedUpdate[cluster] = ok`, then the next iteration of *)
(* `for _, cluster := range AllClusters` or, after the last, `future <- p`  *)
IsUpdateNeededStep ==
  \E f \in FutIds :
  /\ Running
  /\ At(f, "assess", "write")
  /\ LET p == futs[f].pkg
         k == futs[f].k
     IN /\ NeedUpdate' = [NeedUpdate EXCEPT ![p] =
                 MapSet(@, AllClusters[k], futs[f].ok)]
        /\ futs' = IF k < NumClusters
                   THEN [futs EXCEPT ![f].k = k + 1, ![f].tpc = "query"]
                   ELSE SendAndReturn(f, "ok")
  /\ UNCHANGED <<disk, mainvars, Valid, validWrites, Updated, File>>

(* `if _, err := os.Stat(outpath); err == nil { os.Remove(outpath) }`: an   *)
(* existing project directory is removed only when it is empty              *)
StatAndRemove(p) ==
  IF disk.proj[p] = "dir" THEN [disk EXCEPT !.proj[p] = "none"] ELSE disk

(* os.MkdirAll(outpath): creates downloads_tmp and the project directory,   *)
(* keeps a directory that already exists                                    *)
MkdirAll(d, p) ==
  [d EXCEPT !.tmp = TRUE,
            !.proj[p] = IF d.proj[p] = "none" THEN "dir" ELSE d.proj[p]]

(* DownloadArtifact: os.Stat / os.Remove / os.MkdirAll; on error return *)
DownloadMkdir ==
  \E f \in FutIds :
  /\ Running
  /\ At(f, "download", "mkdir")
  /\ \E ok \in BOOLEAN :
       IF ok
       THEN /\ disk' = MkdirAll(StatAndRemove(futs[f].pkg), futs[f].pkg)
            /\ futs' = SetTask(f, "create", "")
       ELSE /\ disk' = StatAndRemove(futs[f].pkg)
            /\ futs' = SetTask(f, "returned", "mkdirFail")
  /\ UNCHANGED <<mainvars, pkgvars>>

(* DownloadArtifact: os.Create(outname); on error return *)
DownloadCreate ==
  \E f \in FutIds :
  /\ Running
  /\ At(f, "download", "create")
  /\ \E ok \in BOOLEAN :
       IF ok
       THEN /\ disk' = [disk EXCEPT !.proj[futs[f].pkg] = "file"]
            /\ futs' = SetTask(f, "get", "")
       ELSE /\ UNCHANGED disk
            /\ futs' = SetTask(f, "returned", "createFail")
  /\ UNCHANGED <<mainvars, pkgvars>>

(* a fetch whose error path sends the record before returning *)
DownloadGet_SendsOnFailure ==
  \E f \in FutIds :
  /\ Running
  /\ At(f, "download", "get")
  /\ \E ok \in BOOLEAN :
       futs' = IF ok THEN SetTask(f, "copy", "")
                     ELSE SendAndReturn(f, "getFail")
  /\ UNCHANGED <<disk, mainvars, pkgvars>>

(* DownloadArtifact: http.Get(p.Artifact); on error return *)
DownloadGet ==
  \E f \in FutIds :
  /\ Running
  /\ At(f, "download", "get")
  /\ \E ok \in BOOLEAN :
       futs' = IF ok THEN SetTask(f, "copy", "")
                     ELSE SetTask(f, "returned", "getFail")
  /\ UNCHANGED <<disk, mainvars, pkgvars>>

(* a copy step that records the file path before testing the copy error *)
DownloadCopy_SetsFileFirst ==
  \E f \in FutIds :
  /\ Running
  /\ At(f, "download", "copy")
  /\ File' = [File EXCEPT ![futs[f].pkg] = "outname"]
  /\ \E ok \in BOOLEAN :
       futs' = IF ok THEN SendAndReturn(f, "ok")
                     ELSE SetTask(f, "returned", "copyFail")
  /\ UNCHANGED <<disk, mainvars, Valid, validWrites, NeedUpdate, Updated>>

(* DownloadArtifact: io.Copy; on error return, else `p.File = outname` *)
DownloadCopy ==
  \E f \in FutIds :
  /\ Running
  /\ At(f, "download", "copy")
  /\ \E ok \in BOOLEAN :
       IF ok
       THEN /\ File' = [File EXCEPT ![futs[f].pkg] = "outname"]
            /\ futs' = SendAndReturn(f, "ok")
       ELSE /\ UNCHANGED File
            /\ futs' = SetTask(f, "returned", "copyFail")
  /\ UNCHANGED <<disk, mainvars, Valid, validWrites, NeedUpdate, Updated>>

(* another upload task of the same package has not yet written p.Updated:  *)
(* its map write is not ordered with this task's write                     *)
ConcurrentMapWriter(f) ==
  \E g \in FutIds : /\ g # f
                    /\ futs[g].stage = "upload"
                    /\ futs[g].pkg = futs[f].pkg
                    /\ futs[g].tpc = "run"

(* UpdatePackage: cmd.Run() and `p.Updated[cluster] = (err == nil)`.  The   *)
(* write goes to the map p.Updated refers to when the task writes.          *)
(* an upload that marks the package invalid when the tool fails *)
UpdatePackageRun_InvalidatesOnFailure ==
  \E f \in FutIds :
  /\ Running
  /\ At(f, "upload", "run")
  /\ \E ok \in BOOLEAN :
       /\ Updated' = [Updated EXCEPT ![futs[f].pkg] = MapSet(@, futs[f].cluster, ok)]
       /\ Valid' = [Valid EXCEPT ![futs[f].pkg] = @ /\ ok]
       /\ futs' = SendAndReturn(f, IF ok THEN "ok" ELSE "fail")
  /\ UNCHANGED <<disk, mainvars, validWrites, NeedUpdate, File>>

UpdatePackageRun ==
  \E f \in FutIds :
  /\ Running
  /\ At(f, "upload", "run")
  /\ \E ok \in BOOLEAN :
       /\ Updated' = [Updated EXCEPT ![futs[f].pkg] = MapSet(@, futs[f].cluster, ok)]
       /\ futs' = SendAndReturn(f, IF ok THEN "ok" ELSE "fail")
  /\ UNCHANGED <<disk, mainvars, Valid, validWrites, NeedUpdate, File>>

(* two unsynchronised writes to one Go map: the runtime may stop the        *)
(* process with "fatal error: concurrent map writes"                        *)
UpdatePackageMapFault ==
  \E f \in FutIds :
  /\ Running
  /\ At(f, "upload", "run")
  /\ ConcurrentMapWriter(f)
  /\ pc' = "crashed"
  /\ UNCHANGED <<qvars, disk, nMatches, i, j, pkgs, ItemsInChannels, futs, pkgvars,
                 drainEntry, drainRecv, report>>

Next ==
  \/ GetAllPackagesSpawn
  \/ GetAllPackagesRecv
  \/ GetAllPackagesReturn
  \/ ValidSpawn
  \/ AssessSpawn
  \/ DownloadSpawn
  \/ UpdateSpawn
  \/ BlockUntilCompleteRecv
  \/ BlockUntilCompleteReturn
  \/ Report
  \/ Cleanup
  \/ DecodeJson
  \/ CheckIfValidReset
  \/ CheckIfValidProbe
  \/ IsUpdateNeededQuery
  \/ IsUpdateNeededStep
  \/ DownloadMkdir
  \/ DownloadCreate
  \/ DownloadGet
  \/ DownloadCopy
  \/ UpdatePackageRun
  \/ UpdatePackageMapFault

Spec == Init /\ [][Next]_vars

(* ------------------------------------------------------------------ *)
(* clusterOkToUpdate on its own: one call with any revision, cluster   *)
(* and tool output                                                     *)
(* ------------------------------------------------------------------ *)

QueryInit ==
  /\ nMatches = 0
  /\ pc = "decodeSpawn"
  /\ i = 1
  /\ j = 1
  /\ pkgs = <<>>
  /\ ItemsInChannels = 0
  /\ futs = <<>>
  /\ Valid = [p \in PkgIds |-> FALSE]
  /\ NeedUpdate = [p \in PkgIds |-> EmptyMap]
  /\ Updated = [p \in PkgIds |-> EmptyMap]
  /\ File = [p \in PkgIds |-> ""]
  /\ drainEntry = 0
  /\ drainRecv = 0
  /\ report = <<>>
  /\ validWrites = [p \in PkgIds |-> 0]
  /\ disk = [tmp |-> FALSE, proj |-> [p \in PkgIds |-> "none"]]
  /\ qrev \in Revisions
  /\ qcluster \in ClusterSet
  /\ qout \in QueryOutputs
  /\ qres = [set |-> FALSE, need |-> FALSE]

(* `ok, status := p.clusterOkToUpdate(cluster)` *)
QueryCall ==
  /\ ~qres.set
  /\ qres' = [set |-> TRUE, need |-> clusterOkToUpdate(qrev, qout)]
  /\ UNCHANGED <<qrev, qcluster, qout, disk, nMatches, pc, i, j, pkgs,
                 ItemsInChannels, futs, drainEntry, drainRecv, report, pkgvars>>

QueryNext == QueryCall

QuerySpec == QueryInit /\ [][QueryNext]_vars

(* ------------------------------------------------------------------ *)
(* properties                                                          *)
(* ------------------------------------------------------------------ *)

(* C1: every task spawned by a stage sends exactly one value on its future *)
(* on every code path, error paths included, and then terminates: a stage  *)
(* task that has terminated has sent exactly once.                         *)
C1_ExactlyOneSend ==
  \A f \in FutIds :
    (futs[f].stage \in {"valid", "assess", "download", "upload"}
       /\ futs[f].tpc \in {"done", "returned"})
    => futs[f].sent = 1

(* C2: a drain receives exactly as many times as the outstanding count at  *)
(* its entry, and at the point where its loop ends every registered        *)
(* future has delivered and ItemsInChannels is 0.                          *)
C2_DrainPrecise ==
  pc \in {"decodeDrain", "validDrain", "assessDrain", "dlDrain", "upDrain"}
  => /\ drainRecv + ItemsInChannels = drainEntry
     /\ ItemsInChannels >= 0
     /\ ItemsInChannels <= 0 =>
          /\ drainRecv = drainEntry
          /\ \A f \in FutIds : futs[f].fwd = "relayed"

(* C2 witness: the upload drain has received two or more values and ends *)
C2_Witness ==
  pc = "upDrain" /\ ItemsInChannels = 0 /\ drainEntry >= 2 /\ drainRecv >= 2

(* C3: ItemsInChannels always equals the number of registered futures      *)
(* whose value has not yet been received from the shared channel.          *)
C3_CountPrecise ==
  ItemsInChannels = Cardinality({f \in FutIds : futs[f].fwd # "relayed"})

(* C3 witness: futures registered after earlier drains received values are *)
(* counted while older futures are already delivered                        *)
C3_Witness ==
  /\ pc = "assessSpawn"
  /\ ItemsInChannels >= 1
  /\ Cardinality({f \in FutIds : futs[f].fwd = "relayed"}) >= 2

(* C4: no assessment, download or upload task is ever spawned for a        *)
(* package whose Valid is false.                                           *)
C4_InvalidNeverSpawned ==
  \A f \in FutIds :
    futs[f].stage \in {"assess", "download", "upload"} => Valid[futs[f].pkg]

(* C4 witness: the run ends with an invalid package beside an uploaded one *)
C4_Witness ==
  /\ pc = "done"
  /\ \E p \in 1..Len(pkgs) : ~Valid[p]
  /\ \E f \in FutIds : futs[f].stage = "upload"

(* C5: exactly one download task is spawned for each package with at least *)
(* one stale cluster, however many are stale, and none for a package with  *)
(* no stale cluster.                                                       *)
C5_OneDownloadPerStalePackage ==
  \A p \in 1..Len(pkgs) :
    LET n == Cardinality({f \in FutIds :
                 futs[f].stage = "download" /\ futs[f].pkg = p})
        stale == \E c \in ClusterSet : MapGet(NeedUpdate[p], c)
    IN /\ n <= 1
       /\ n = 1 => stale
       /\ (pc \in {"dlDrain", "exit0", "upSpawn", "upDrain", "report",
                   "cleanup", "done", "crashed"} /\ stale) => n = 1

(* C5 witness: the download loop is over with a package stale in every     *)
(* cluster and a valid package stale in none                               *)
C5_Witness ==
  /\ pc = "dlDrain"
  /\ \E p \in 1..Len(pkgs) : \A c \in ClusterSet : MapGet(NeedUpdate[p], c)
  /\ \E p \in 1..Len(pkgs) :
       Valid[p] /\ \A c \in ClusterSet : ~MapGet(NeedUpdate[p], c)

(* C6: exactly one upload task is spawned for each (package, cluster) pair *)
(* with NeedUpdate[cluster] true, and none for any other pair.             *)
C6_OneUploadPerStalePair ==
  \A p \in 1..Len(pkgs) : \A c \in ClusterSet :
    LET n == Cardinality({f \in FutIds :
                 futs[f].stage = "upload" /\ futs[f].pkg = p
                 /\ futs[f].cluster = c})
        stale == MapGet(NeedUpdate[p], c)
    IN /\ n <= 1
       /\ n = 1 => stale
       /\ (pc \in {"upDrain", "report", "cleanup", "done"} /\ stale) => n = 1

(* C6 witness: the upload loop is over with two uploads for one package    *)
(* and a pair that is not stale in a package that is stale elsewhere       *)
C6_Witness ==
  /\ pc = "upDrain"
  /\ \E p \in 1..Len(pkgs) :
       \A c \in ClusterSet :
         \E f \in FutIds : futs[f].stage = "upload" /\ futs[f].pkg = p
                           /\ futs[f].cluster = c
  /\ \E p \in 1..Len(pkgs) : \E c, d \in ClusterSet :
       MapGet(NeedUpdate[p], c) /\ ~MapGet(NeedUpdate[p], d)

(* C7: after the upload stage has drained, Updated[cluster] of every pair  *)
(* for which an upload was attempted is true exactly when the add-version  *)
(* tool succeeded, and the report line of the pair says success exactly    *)
(* when the tool succeeded.                                                *)
C7_UpdatedMatchesTool ==
  /\ pc \in {"report", "cleanup", "done"} =>
       \A f \in FutIds :
         futs[f].stage = "upload" =>
           (MapGet(Updated[futs[f].pkg], futs[f].cluster) <=> futs[f].res = "ok")
  /\ pc \in {"cleanup", "done"} =>
       \A n \in 1..Len(report) :
         report[n].ok <=>
           \E f \in FutIds : /\ futs[f].stage = "upload"
                             /\ futs[f].pkg = report[n].pkg
                             /\ futs[f].cluster = report[n].cluster
                             /\ futs[f].res = "ok"

(* C8: a failed download does not stall the run: once a download has       *)
(* failed, the driver is never left blocked in a drain with every task     *)
(* finished and nothing left to receive.                                   *)
C8_FailedDownloadDoesNotStall ==
  (\E f \in FutIds : futs[f].stage = "download" /\ futs[f].tpc = "returned")
  => ~(/\ pc \in {"decodeDrain", "validDrain", "assessDrain", "dlDrain", "upDrain"}
       /\ ItemsInChannels > 0
       /\ \A g \in FutIds : /\ futs[g].tpc \in {"done", "returned"}
                            /\ futs[g].fwd # "hold")

(* C9: a failed upload does not abort the run: a run in which an           *)
(* add-version call failed ends only by returning from main after the      *)
(* final report, with every spawned upload task completed.                 *)
C9_FailedUploadDoesNotAbort ==
  (/\ \E f \in FutIds : futs[f].stage = "upload" /\ futs[f].res = "fail"
   /\ pc \in {"fatalNoPackages", "fatalNoValid", "exit0", "done", "crashed"})
  => /\ pc = "done"
     /\ \A g \in FutIds : futs[g].stage = "upload" => futs[g].tpc = "done"

(* C10: with no manifest matched the driver aborts before any stage task   *)
(* is spawned; with no package valid after the validation stage it aborts  *)
(* with no assessment, download or upload task spawned.                    *)
C10_FatalGates ==
  LET stageTasks == {f \in FutIds : futs[f].stage # "decode"}
      laterTasks == {f \in FutIds : futs[f].stage \in {"assess", "download", "upload"}}
      validated == pc \notin {"decodeSpawn", "decodeDrain", "fatalNoPackages",
                              "validSpawn", "validDrain"}
  IN /\ nMatches = 0 =>
          /\ pc \in {"decodeSpawn", "decodeDrain", "fatalNoPackages"}
          /\ stageTasks = {}
     /\ pc = "fatalNoPackages" => (nMatches = 0 /\ stageTasks = {})
     /\ (validated /\ \A p \in 1..Len(pkgs) : ~Valid[p]) =>
          /\ pc \in {"assessSpawn", "fatalNoValid"}
          /\ laterTasks = {}
     /\ pc = "fatalNoValid" =>
          ((\A p \in 1..Len(pkgs) : ~Valid[p]) /\ laterTasks = {})

(* C10 witness: the run aborted after validating two or more packages,     *)
(* none of them valid                                                      *)
C10_Witness ==
  /\ pc = "fatalNoValid"
  /\ Len(pkgs) >= 2
  /\ Cardinality({f \in FutIds : futs[f].stage = "valid" /\ futs[f].fwd = "relayed"}) >= 2

(* C11: with a valid package and no stale pair after the assessment stage  *)
(* the run exits cleanly (os.Exit(0), not a fatal abort) and no download   *)
(* or upload task is ever spawned.                                         *)
C11_CleanExitWhenUpToDate ==
  LET assessed == pc \notin {"decodeSpawn", "decodeDrain", "fatalNoPackages",
                             "validSpawn", "validDrain", "assessSpawn",
                             "assessDrain", "fatalNoValid"}
      noStale == \A p \in 1..Len(pkgs) : \A c \in ClusterSet :
                   ~MapGet(NeedUpdate[p], c)
      work == {f \in FutIds : futs[f].stage \in {"download", "upload"}}
  IN /\ (assessed /\ noStale) =>
          /\ pc \in {"dlSpawn", "exit0"}
          /\ work = {}
          /\ ItemsInChannels = 0
     /\ pc = "exit0" =>
          /\ noStale
          /\ work = {}
          /\ \E p \in 1..Len(pkgs) : Valid[p]

(* C11 witness: the run exited cleanly with two or more packages, one of   *)
(* them valid and none stale                                               *)
C11_Witness ==
  /\ pc = "exit0"
  /\ Len(pkgs) >= 2
  /\ \E p \in 1..Len(pkgs) : Valid[p] /\ DOMAIN NeedUpdate[p] = ClusterSet

(* C12: no task of a later stage exists while a task of an earlier stage   *)
(* has not finished and delivered, and every task of a package has its     *)
(* package's task of the previous stage completed before it.               *)
C12_StageBarrier ==
  LET StageNo == [decode |-> 0, valid |-> 1, assess |-> 2,
                  download |-> 3, upload |-> 4]
      no(f) == StageNo[futs[f].stage]
      nos == {no(g) : g \in FutIds}
      latest == CHOOSE n \in nos : \A m \in nos : m <= n
      before(f, g) == /\ no(f) + 1 = no(g)
                      /\ futs[f].pkg = futs[g].pkg
                      /\ futs[f].tpc = "done"
  IN /\ \A f \in FutIds :
          no(f) < latest => (futs[f].tpc = "done" /\ futs[f].fwd = "relayed")
     /\ \A g \in FutIds :
          no(g) >= 2 => \E f \in FutIds : before(f, g)

(* C12 witness: an upload task is running after the three earlier stages *)
C12_Witness ==
  /\ \E g \in FutIds : futs[g].stage = "upload" /\ futs[g].tpc = "run"
  /\ \E f \in FutIds : futs[f].stage = "download"
  /\ Len(pkgs) >= 2

(* C13: a call of clusterOkToUpdate reports "needs update" when the query  *)
(* failed or gave no sha token, reports "does not need update" exactly     *)
(* when the query succeeded with at least one token and the last token     *)
(* equals the package's revision, and "needs update" otherwise, whatever   *)
(* the earlier tokens are.                                                 *)
C13_LastTokenDecides ==
  qres.set =>
    /\ (qout.err \/ Len(qout.shas) = 0) => qres.need
    /\ ~qres.need <=> (/\ ~qout.err
                       /\ Len(qout.shas) >= 1
                       /\ qout.shas[Len(qout.shas)] = qrev)

(* C13 witness: the call reported "needs update" although the first token  *)
(* equals the revision, because the last one does not                      *)
C13_Witness ==
  /\ qres.set /\ qres.need
  /\ ~qout.err /\ Len(qout.shas) >= 2
  /\ qout.shas[1] = qrev
  /\ qout.shas[Len(qout.shas)] # qrev

(* C14: within a stage no two running tasks target the same Package        *)
(* record.                                                                 *)
C14_OneWriterPerRecord ==
  \A f, g \in FutIds :
    (/\ f # g
     /\ futs[f].stage = futs[g].stage
     /\ futs[f].pkg = futs[g].pkg)
    => ~(futs[f].tpc \notin {"done", "returned"}
         /\ futs[g].tpc \notin {"done", "returned"})

(* C15: after the assessment stage has drained every valid package's      *)
(* NeedUpdate has exactly one entry per cluster of AllClusters; an entry   *)
(* is written only by the package's assessment task, with the result of    *)
(* the query of that cluster, and the write leaves the other entries as    *)
(* they were.                                                              *)
C15_NeedUpdatePerCluster ==
  [][/\ \A p \in PkgIds :
          NeedUpdate'[p] # NeedUpdate[p] =>
            \/ pc = "assessSpawn" /\ NeedUpdate'[p] = EmptyMap
            \/ \E f \in FutIds :
                 /\ futs[f].stage = "assess"
                 /\ futs[f].pkg = p
                 /\ futs[f].tpc = "write"
                 /\ LET c == AllClusters[futs[f].k]
                    IN /\ DOMAIN NeedUpdate'[p] = DOMAIN NeedUpdate[p] \cup {c}
                       /\ NeedUpdate'[p][c] = futs[f].ok
                       /\ \A d \in DOMAIN NeedUpdate[p] \ {c} :
                            NeedUpdate'[p][d] = NeedUpdate[p][d]
     /\ pc' \in {"dlSpawn", "dlDrain", "upSpawn", "upDrain", "report",
                 "cleanup", "done", "exit0", "crashed"}
          => \A n \in 1..Len(pkgs') :
               Valid'[pkgs'[n]] => DOMAIN NeedUpdate'[pkgs'[n]] = ClusterSet]_vars

(* C15 witness: the assessment stage has drained with a valid package      *)
(* stale in atla and up to date in smf1, and another the other way round   *)
C15_Witness ==
  /\ pc = "dlSpawn"
  /\ \E p, q \in PkgIds :
       /\ Valid[p] /\ Valid[q]
       /\ DOMAIN NeedUpdate[p] = ClusterSet /\ DOMAIN NeedUpdate[q] = ClusterSet
       /\ NeedUpdate[p]["atla"] /\ ~NeedUpdate[p]["smf1"]
       /\ ~NeedUpdate[q]["atla"] /\ NeedUpdate[q]["smf1"]

(* C16, as stated: once the validation stage has drained, the Valid field  *)
(* of every record has been written exactly once.                          *)
C16_ValidWrittenExactlyOnce ==
  pc \notin {"decodeSpawn", "decodeDrain", "fatalNoPackages",
             "validSpawn", "validDrain"}
    => \A n \in 1..Len(pkgs) : validWrites[pkgs[n]] = 1

(* C16, amended: Valid is written only by the record's validation task,    *)
(* once when the task resets it and once more when the probe accepts the   *)
(* artifact; no step of the assessment, download or upload stage changes   *)
(* it, so its value after the validation drain is kept for the rest of     *)
(* the run.                                                                *)
C16_ValidWrittenByValidationOnly ==
  [][\A p \in PkgIds :
       /\ (Valid'[p] # Valid[p] \/ validWrites'[p] # validWrites[p]) =>
            /\ pc \in {"validSpawn", "validDrain"}
            /\ validWrites'[p] = validWrites[p] + 1
            /\ \E f \in FutIds : /\ futs[f].stage = "valid"
                                 /\ futs[f].pkg = p
                                 /\ futs[f].tpc \in {"reset", "probe"}
                                 /\ futs'[f].tpc # futs[f].tpc
       /\ (/\ pc' \notin {"decodeSpawn", "decodeDrain", "fatalNoPackages",
                           "validSpawn", "validDrain"}
           /\ \E n \in 1..Len(pkgs') : pkgs'[n] = p)
            => validWrites'[p] = IF Valid'[p] THEN 2 ELSE 1]_vars

(* C16 witness: the run is over with a valid package, written twice, and   *)
(* an invalid one, written once, after an upload failed                    *)
C16_Witness ==
  /\ pc = "done"
  /\ \E p, q \in PkgIds : /\ Valid[p] /\ validWrites[p] = 2
                          /\ ~Valid[q] /\ validWrites[q] = 1
  /\ \E f \in FutIds : futs[f].stage = "upload" /\ futs[f].res = "fail"

(* C17: File is set at most once, only by the package's download task at   *)
(* the end of a successful copy, and a download that failed leaves File    *)
(* unset.                                                                  *)
C17_FileSetOnceOnSuccess ==
  [][\A p \in PkgIds :
       /\ File'[p] # File[p] =>
            /\ File[p] = ""
            /\ \E f \in FutIds : /\ futs[f].stage = "download"
                                 /\ futs[f].pkg = p
                                 /\ futs[f].tpc = "copy"
                                 /\ futs'[f].tpc = "done"
                                 /\ futs'[f].res = "ok"
       /\ (\E f \in 1..Len(futs') : /\ futs'[f].stage = "download"
                                    /\ futs'[f].pkg = p
                                    /\ futs'[f].tpc = "returned")
            => File'[p] = ""]_vars

(* C17 witness: one download succeeded and set File, another failed in the *)
(* copy and left File unset                                                *)
C17_Witness ==
  /\ \E f \in FutIds : /\ futs[f].stage = "download" /\ futs[f].res = "ok"
                       /\ File[futs[f].pkg] = "outname"
  /\ \E f \in FutIds : /\ futs[f].stage = "download" /\ futs[f].res = "copyFail"
                       /\ File[futs[f].pkg] = ""

(* C18: the final report has exactly one line for each stale pair and no   *)
(* line for any other pair; a single valid package stale in one cluster    *)
(* and current in the other gets one download, one upload (to the stale    *)
(* cluster) and one report line.                                           *)
C18_ReportLines ==
  pc \in {"cleanup", "done"} =>
    /\ \A p \in 1..Len(pkgs) : \A c \in ClusterSet :
         Cardinality({n \in 1..Len(report) :
                        report[n].pkg = p /\ report[n].cluster = c})
           = IF MapGet(NeedUpdate[p], c) THEN 1 ELSE 0
    /\ \A n \in 1..Len(report) : report[n].pkg \in 1..Len(pkgs)
    /\ (Len(pkgs) = 1 /\ Valid[1]
        /\ Cardinality({c \in ClusterSet : MapGet(NeedUpdate[1], c)}) = 1) =>
         /\ Cardinality({f \in FutIds : futs[f].stage = "download"}) = 1
         /\ Cardinality({f \in FutIds : futs[f].stage = "upload"}) = 1
         /\ \A f \in FutIds : futs[f].stage = "upload" =>
              MapGet(NeedUpdate[1], futs[f].cluster)
         /\ Len(report) = 1

(* C18 witness: the report of a run with one package, stale in one cluster *)
(* and current in the other                                                *)
C18_Witness ==
  /\ pc = "done"
  /\ Len(pkgs) = 1
  /\ \E c, d \in ClusterSet :
       /\ c \in DOMAIN NeedUpdate[1] /\ NeedUpdate[1][c]
       /\ d \in DOMAIN NeedUpdate[1] /\ ~NeedUpdate[1][d]
  /\ Len(report) = 1

(* C19: a run that reached the final report has removed the temporary     *)
(* download directory by the time it exits.                                *)
C19_TmpDirRemoved ==
  pc = "done" => ~disk.tmp

(* C20: whenever an upload task exists for a package, that package's       *)
(* download has completed successfully and File is set.                    *)
C20_UploadOnlyWithFile ==
  \A g \in FutIds :
    futs[g].stage = "upload" =>
      /\ File[futs[g].pkg] # ""
      /\ \E f \in FutIds : /\ futs[f].stage = "download"
                           /\ futs[f].pkg = futs[g].pkg
                           /\ futs[f].tpc = "done"
                           /\ futs[f].res = "ok"

(* C20 witness: upload tasks of two packages are running *)
C20_Witness ==
  \E g, h \in FutIds : /\ futs[g].stage = "upload" /\ futs[g].tpc = "run"
                       /\ futs[h].stage = "upload" /\ futs[h].tpc = "run"
                       /\ futs[g].pkg # futs[h].pkg

====
